---- MODULE Spec2Model ----
(***************************************************************************)
(* Model of the Ethercalc HTTP client.  One client instance owns an axios  *)
(* instance (base URL and timeout).  Every public operation is an async    *)
(* handler: it builds one request, awaits the transport, and maps the      *)
(* transport's outcome to the value its promise settles with.              *)
(*                                                                         *)
(* JavaScript values are records tagged by their field names:              *)
(*   [string |-> s]  [boolean |-> b]  [undefined |-> TRUE]  [null |-> TRUE]*)
(*   [array |-> <<s1, ..., sn>>]  [buffer |-> s]  [stream |-> path]        *)
(* and plain objects are records with the object's own keys.               *)
(***************************************************************************)
EXTENDS Integers, Sequences, FiniteSets

VARIABLES instance, pc, op, args, request, sent, outcome, result

vars == <<instance, pc, op, args, request, sent, outcome, result>>

-----------------------------------------------------------------------------
(* Bounds *)

\* longest command array passed to postCommand
MaxCmds == 2

-----------------------------------------------------------------------------
(* Program constants *)

DEFAULT_SNAPSHOT == "..."
DEFAULT_HOST == "localhost"
DEFAULT_PORT == "8000"
DEFAULT_PROTOCOL == "http"
DEFAULT_TIMEOUT == 2500

SOCIALCALC == "socialcalc"
XLSX == "xlsx"
CSV == "csv"

\* the per-request override of createRoom
CREATE_TIMEOUT == 10000

-----------------------------------------------------------------------------
(* JavaScript values *)

Str(s) == [string |-> s]
Bool(b) == [boolean |-> b]
Arr(a) == [array |-> a]
Undefined == [undefined |-> TRUE]
Null == [null |-> TRUE]

IsString(v) == "string" \in DOMAIN v
IsArray(v) == "array" \in DOMAIN v
IsUndefined(v) == "undefined" \in DOMAIN v
IsNull(v) == "null" \in DOMAIN v

\* JavaScript truthiness, as used by `if (room)`, `snapshot || D`, `if (response)`
Truthy(v) ==
  IF IsUndefined(v) \/ IsNull(v) THEN FALSE
  ELSE IF "boolean" \in DOMAIN v THEN v.boolean
  ELSE IF IsString(v) THEN v.string /= ""
  ELSE TRUE

\* string conversion inside a template literal `${v}`
TemplateString(v) ==
  IF IsString(v) THEN v.string
  ELSE IF IsUndefined(v) THEN "undefined"
  ELSE IF IsNull(v) THEN "null"
  ELSE IF "boolean" \in DOMAIN v THEN (IF v.boolean THEN "true" ELSE "false")
  ELSE "[object Object]"

UpperLetters == "ABCDEFGHIJKLMNOPQRSTUVWXYZ"
LowerLetters == "abcdefghijklmnopqrstuvwxyz"

LowerChar(c) ==
  IF \E i \in 1..26 : SubSeq(UpperLetters, i, i) = c
  THEN LET i == CHOOSE j \in 1..26 : SubSeq(UpperLetters, j, j) = c
       IN  SubSeq(LowerLetters, i, i)
  ELSE c

\* String.prototype.toLowerCase
RECURSIVE ToLowerCase(_)
ToLowerCase(s) ==
  IF s = "" THEN "" ELSE LowerChar(Head(s)) \o ToLowerCase(Tail(s))

-----------------------------------------------------------------------------
(* qs.stringify, default options (arrayFormat 'indices', RFC 3986)          *)

UnreservedChars == "abcdefghijklmnopqrstuvwxyzABCDEFGHIJKLMNOPQRSTUVWXYZ0123456789-._~"

IsUnreserved(c) == \E i \in 1..Len(UnreservedChars) : SubSeq(UnreservedChars, i, i) = c

\* percent-encoding of one character
EncodeChar(c) ==
  IF IsUnreserved(c) THEN c
  ELSE CASE c = " " -> "%20"
         [] c = "%" -> "%25"
         [] c = "&" -> "%26"
         [] c = "," -> "%2C"
         [] c = "/" -> "%2F"
         [] c = ":" -> "%3A"
         [] c = "=" -> "%3D"
         [] c = "[" -> "%5B"
         [] c = "]" -> "%5D"

RECURSIVE Encode(_)
Encode(s) == IF s = "" THEN "" ELSE EncodeChar(Head(s)) \o Encode(Tail(s))

Digit(i) == SubSeq("0123456789", i + 1, i + 1)

\* the `key=value` pairs of one array value, one per index, in index order
RECURSIVE StringifyArray(_, _, _)
StringifyArray(key, a, i) ==
  IF i > Len(a) THEN <<>>
  ELSE <<Encode(key \o "[" \o Digit(i - 1) \o "]") \o "=" \o Encode(a[i])>>
         \o StringifyArray(key, a, i + 1)

\* the `key=value` pairs of one own property of the stringified object
StringifyEntry(key, v) ==
  IF IsUndefined(v) THEN <<>>
  ELSE IF IsNull(v) THEN <<Encode(key) \o "=">>
  ELSE IF IsArray(v) THEN StringifyArray(key, v.array, 1)
  ELSE <<Encode(key) \o "=" \o Encode(TemplateString(v))>>

RECURSIVE JoinAmp(_)
JoinAmp(parts) ==
  IF parts = <<>> THEN ""
  ELSE IF Len(parts) = 1 THEN parts[1]
  ELSE parts[1] \o "&" \o JoinAmp(Tail(parts))

RECURSIVE StringifyEntries(_)
StringifyEntries(entries) ==
  IF entries = <<>> THEN <<>>
  ELSE StringifyEntry(entries[1][1], entries[1][2]) \o StringifyEntries(Tail(entries))

\* qs.stringify(obj); obj is the sequence of <<key, value>> own properties
Stringify(entries) == JoinAmp(StringifyEntries(entries))

-----------------------------------------------------------------------------
(* Inputs the caller may pass *)

Rooms == {"r1", "my room"}
Snapshots == {"a,b", ""}
Paths == {"rows.csv"}
Coords == {"A1"}
Instructions == {"set A1 value n 1", "set A2 text t a&b=c"}

\* room argument of createRoom: present, or absent in each of its spellings
RoomArgs == {Str(r) : r \in Rooms} \cup {Str(""), Null, Undefined}
\* snapshot argument of createRoom: optional
SnapshotArgs == {Str(s) : s \in Snapshots} \cup {Null, Undefined}
\* format argument of overwrite
FormatArgs ==
  {Str(f) : f \in {"socialcalc", "xlsx", "csv", "CSV", "Xlsx", "json", ""}} \cup {Undefined}
\* type argument of exportRoom
TypeArgs ==
  {Str(t) : t \in {"CSV.JSON", "csv.json", "HTML", "html", "md", "XLSX", "csv",
                   "unknownformat", ""}} \cup {Undefined}

RECURSIVE SeqsUpTo(_, _)
SeqsUpTo(S, n) ==
  IF n = 0 THEN {<<>>}
  ELSE LET shorter == SeqsUpTo(S, n - 1)
       IN  shorter \cup {Append(q, x) : q \in shorter, x \in S}

\* command argument of postCommand: one instruction or an array of them
CommandArgs ==
  {Str(i) : i \in Instructions} \cup {Arr(a) : a \in SeqsUpTo(Instructions, MaxCmds)}

-----------------------------------------------------------------------------
(* The transport: what the server, or the network, may answer *)

\* <<status, reason phrase>> of the answers the server may give
StatusLines ==
  {<<200, "OK">>, <<204, "No Content">>, <<304, "Not Modified">>,
   <<404, "Not Found">>, <<500, "Internal Server Error">>}

\* decoded response bodies
Bodies == {Str("body"), Str(""), Bool(TRUE), Bool(FALSE)}

\* failures with no HTTP response
NetworkCodes == {"ECONNREFUSED", "ENOTFOUND"}

NoRequest == [none |-> TRUE]
NoOutcome == [none |-> TRUE]
NoResult == [none |-> TRUE]

\* axios' default validateStatus
ValidateStatus(status) == status >= 200 /\ status < 300

\* the settled state of the promise the axios call returned
Fulfilled(response) == [ok |-> TRUE, response |-> response]
Rejected(error) == [ok |-> FALSE, error |-> error]

\* `error.response` is set exactly when an HTTP response was received
HasResponse(error) == "response" \in DOMAIN error

-----------------------------------------------------------------------------
(* Construction *)

Timeouts == {DEFAULT_TIMEOUT, 500}

Ethercalc(host, port, protocol, timeout) ==
  [baseURL |-> protocol \o "://" \o host \o ":" \o port, timeout |-> timeout]

Init ==
  /\ instance \in {Ethercalc(DEFAULT_HOST, DEFAULT_PORT, DEFAULT_PROTOCOL, t) : t \in Timeouts}
  /\ pc = "idle"
  /\ op = "none"
  /\ args = <<>>
  /\ request = NoRequest
  /\ sent = 0
  /\ outcome = NoOutcome
  /\ result = NoResult

\* the model follows one call from its invocation to the settling of its promise
CanCall == pc = "idle"

\* this.instance.<method>(url, data, config): one request handed to the transport.
\* config is a record that may carry `headers` and `timeout`.
Issue(name, arguments, method, url, data, config) ==
  /\ pc' = "awaiting"
  /\ op' = name
  /\ args' = arguments
  /\ request' = [method |-> method,
                 url |-> url,
                 data |-> data,
                 headers |-> IF "headers" \in DOMAIN config THEN config.headers ELSE {},
                 timeout |-> IF "timeout" \in DOMAIN config THEN config.timeout
                             ELSE instance.timeout]
  /\ sent' = sent + 1
  /\ outcome' = NoOutcome
  /\ result' = NoResult
  /\ UNCHANGED instance

\* the handler returns (or throws) before any request is made
SettleEarly(name, arguments, state, value) ==
  /\ pc' = state
  /\ op' = name
  /\ args' = arguments
  /\ request' = NoRequest
  /\ sent' = sent
  /\ outcome' = NoOutcome
  /\ result' = value
  /\ UNCHANGED instance

NoConfig == [none |-> TRUE]

-----------------------------------------------------------------------------
(* The public operations.  For each: the action is the handler up to its   *)
(* await; <name>Result is the rest of the handler, from the settled axios  *)
(* promise to the value the handler returns.                               *)

getRoom(room) ==
  /\ CanCall
  /\ Issue("getRoom", <<Str(room)>>, "GET", "/_/" \o room, Undefined, NoConfig)

getRoomResult(o) ==
  IF o.ok THEN o.response.data
  ELSE IF HasResponse(o.error)
       THEN [status |-> o.error.response.status,
             message |-> o.error.response.statusText]
       ELSE o.error

\* variant: the timeout override is missing from the branch without a room
createRoom_InstanceTimeout(room, snapshot) ==
  /\ CanCall
  /\ IF Truthy(room)
     THEN Issue("createRoom", <<room, snapshot>>, "POST",
                "/_/" \o TemplateString(room),
                Str(Stringify(<< <<"room", room>>, <<"snapshot", snapshot>> >>)),
                [timeout |-> CREATE_TIMEOUT])
     ELSE LET snapshot2 == IF Truthy(snapshot) THEN snapshot ELSE Str(DEFAULT_SNAPSHOT)
          IN  Issue("createRoom", <<room, snapshot>>, "POST",
                    "/_",
                    Str(Stringify(<< <<"snapshot", snapshot2>> >>)),
                    NoConfig)

createRoom(room, snapshot) ==
  /\ CanCall
  /\ IF Truthy(room)
     THEN Issue("createRoom", <<room, snapshot>>, "POST",
                "/_/" \o TemplateString(room),
                Str(Stringify(<< <<"room", room>>, <<"snapshot", snapshot>> >>)),
                [timeout |-> CREATE_TIMEOUT])
     ELSE LET snapshot2 == IF Truthy(snapshot) THEN snapshot ELSE Str(DEFAULT_SNAPSHOT)
          IN  Issue("createRoom", <<room, snapshot>>, "POST",
                    "/_",
                    Str(Stringify(<< <<"snapshot", snapshot2>> >>)),
                    [timeout |-> CREATE_TIMEOUT])

createRoomResult(o) ==
  IF o.ok THEN o.response.data
  ELSE IF HasResponse(o.error)
       THEN [status |-> o.error.response.status,
             message |-> o.error.response.statusText]
       ELSE o.error

\* variant: the format is compared after lower-casing
overwrite_CaseInsensitive(room, snapshot, type) ==
  LET lower == IF IsString(type) THEN Str(ToLowerCase(type.string)) ELSE type
  IN
  /\ CanCall
  /\ IF lower = Str(SOCIALCALC)
     THEN Issue("overwrite", <<Str(room), Str(snapshot), type>>, "PUT",
                "/_/" \o room, [buffer |-> snapshot],
                [headers |-> {<<"Content-Type", "text/x-socialcalc">>}])
     ELSE IF lower = Str(XLSX)
     THEN Issue("overwrite", <<Str(room), Str(snapshot), type>>, "PUT",
                "/_/" \o room, [buffer |-> snapshot],
                [headers |-> {<<"Content-Type",
                   "application/vnd.openxmlformats-officedocument.spreadsheetml.sheet">>}])
     ELSE IF lower = Str(CSV)
     THEN Issue("overwrite", <<Str(room), Str(snapshot), type>>, "PUT",
                "/_/" \o room, [buffer |-> snapshot],
                [headers |-> {<<"Content-Type", "text/csv">>}])
     ELSE SettleEarly("overwrite", <<Str(room), Str(snapshot), type>>, "fulfilled",
                      [name |-> "Error",
                       message |-> "Format must be one of socialcalc, xlsx or csv!"])

overwrite(room, snapshot, type) ==
  /\ CanCall
  /\ IF type = Str(SOCIALCALC)
     THEN Issue("overwrite", <<Str(room), Str(snapshot), type>>, "PUT",
                "/_/" \o room, [buffer |-> snapshot],
                [headers |-> {<<"Content-Type", "text/x-socialcalc">>}])
     ELSE IF type = Str(XLSX)
     THEN Issue("overwrite", <<Str(room), Str(snapshot), type>>, "PUT",
                "/_/" \o room, [buffer |-> snapshot],
                [headers |-> {<<"Content-Type",
                   "application/vnd.openxmlformats-officedocument.spreadsheetml.sheet">>}])
     ELSE IF type = Str(CSV)
     THEN Issue("overwrite", <<Str(room), Str(snapshot), type>>, "PUT",
                "/_/" \o room, [buffer |-> snapshot],
                [headers |-> {<<"Content-Type", "text/csv">>}])
     ELSE SettleEarly("overwrite", <<Str(room), Str(snapshot), type>>, "fulfilled",
                      [name |-> "Error",
                       message |-> "Format must be one of socialcalc, xlsx or csv!"])

overwriteResult(o) ==
  IF o.ok THEN o.response.data
  ELSE IF HasResponse(o.error)
       THEN [status |-> o.error.response.status,
             message |-> o.error.response.statusText]
       ELSE o.error

createRoomFromCSVFile(path) ==
  /\ CanCall
  /\ Issue("createRoomFromCSVFile", <<Str(path)>>, "POST", "/_/", [stream |-> path],
           [headers |-> {<<"Content-Type", "text/csv">>}])

createRoomFromCSVFileResult(o) ==
  IF o.ok THEN o.response.data
  ELSE IF HasResponse(o.error)
       THEN [status |-> o.error.response.status,
             message |-> o.error.response.statusText]
       ELSE o.error

deleteRoom(room) ==
  /\ CanCall
  /\ Issue("deleteRoom", <<Str(room)>>, "DELETE", "/_/" \o room, Undefined, NoConfig)

\* variant: deleteRoom hands back the response body like the other operations
deleteRoomResult_Data(o) ==
  IF o.ok THEN o.response.data
  ELSE IF HasResponse(o.error)
       THEN [status |-> o.error.response.status,
             message |-> o.error.response.statusText]
       ELSE o.error

deleteRoomResult(o) ==
  IF o.ok THEN (IF Truthy(o.response) THEN Bool(TRUE) ELSE Undefined)
  ELSE IF HasResponse(o.error)
       THEN [status |-> o.error.response.status,
             message |-> o.error.response.statusText]
       ELSE o.error

roomExists(room) ==
  /\ CanCall
  /\ Issue("roomExists", <<Str(room)>>, "GET", "/_exists/" \o room, Undefined, NoConfig)

\* variant: roomExists with the catch block of the other operations
roomExistsResult_Normalized(o) ==
  IF o.ok THEN (IF Truthy(o.response) THEN o.response.data ELSE Undefined)
  ELSE IF HasResponse(o.error)
       THEN [status |-> o.error.response.status,
             message |-> o.error.response.statusText]
       ELSE o.error

roomExistsResult(o) ==
  IF o.ok THEN (IF Truthy(o.response) THEN o.response.data ELSE Undefined)
  ELSE Bool(FALSE)

exportRoom(room, type) ==
  /\ CanCall
  /\ IF ~IsString(type)
     THEN \* type.toLowerCase() throws inside the async function
          SettleEarly("exportRoom", <<Str(room), type>>, "rejected",
                      [name |-> "TypeError",
                       message |-> "Cannot read properties of " \o TemplateString(type)
                                     \o " (reading 'toLowerCase')"])
     ELSE LET lower == ToLowerCase(type.string)
              type2 == IF lower = "csv.json" \/ lower = XLSX \/ lower = "md" \/ lower = "html"
                       THEN lower
                       ELSE CSV
          IN  Issue("exportRoom", <<Str(room), type>>, "GET",
                    "/_/" \o room \o "/" \o type2, Undefined, NoConfig)

exportRoomResult(o) ==
  IF o.ok THEN o.response.data
  ELSE IF HasResponse(o.error)
       THEN [status |-> o.error.response.status,
             message |-> o.error.response.statusText]
       ELSE o.error

listRooms ==
  /\ CanCall
  /\ Issue("listRooms", <<>>, "GET", "/_rooms", Undefined, NoConfig)

\* variant: a failure without a response is wrapped in a descriptor too
listRoomsResult_Wrapped(o) ==
  IF o.ok THEN o.response.data
  ELSE IF HasResponse(o.error)
       THEN [status |-> o.error.response.status,
             message |-> o.error.response.statusText]
       ELSE [status |-> 0, message |-> o.error.code]

listRoomsResult(o) ==
  IF o.ok THEN o.response.data
  ELSE IF HasResponse(o.error)
       THEN [status |-> o.error.response.status,
             message |-> o.error.response.statusText]
       ELSE o.error

Reverse(a) == [i \in 1..Len(a) |-> a[Len(a) + 1 - i]]

\* variant: the instructions of an array are sent last first
postCommand_Reversed(room, command) ==
  /\ CanCall
  /\ Issue("postCommand", <<Str(room), command>>, "POST", "/_/" \o room,
           Str(Stringify(<< <<"command",
                 IF IsArray(command) THEN Arr(Reverse(command.array)) ELSE command>> >>)),
           NoConfig)

postCommand(room, command) ==
  /\ CanCall
  /\ Issue("postCommand", <<Str(room), command>>, "POST", "/_/" \o room,
           Str(Stringify(<< <<"command", command>> >>)), NoConfig)

\* variant: the catch block hands back the body of the error response
postCommandResult_Body(o) ==
  IF o.ok THEN o.response.data
  ELSE IF HasResponse(o.error) THEN o.error.response.data
       ELSE o.error

postCommandResult(o) ==
  IF o.ok THEN o.response.data
  ELSE IF HasResponse(o.error)
       THEN [status |-> o.error.response.status,
             message |-> o.error.response.statusText]
       ELSE o.error

appendRowsFromCSVFile(room, path) ==
  /\ CanCall
  /\ Issue("appendRowsFromCSVFile", <<Str(room), Str(path)>>, "POST", "/_/" \o room,
           [stream |-> path], [headers |-> {<<"Content-Type", "text/csv">>}])

appendRowsFromCSVFileResult(o) ==
  IF o.ok THEN o.response.data
  ELSE IF HasResponse(o.error)
       THEN [status |-> o.error.response.status,
             message |-> o.error.response.statusText]
       ELSE o.error

getCells(room) ==
  /\ CanCall
  /\ Issue("getCells", <<Str(room)>>, "GET", "/_/" \o room \o "/cells", Undefined, NoConfig)

\* variant: the catch block returns the error without looking for a response
getCellsResult_Raw(o) ==
  IF o.ok THEN o.response.data ELSE o.error

getCellsResult(o) ==
  IF o.ok THEN o.response.data
  ELSE IF HasResponse(o.error)
       THEN [status |-> o.error.response.status,
             message |-> o.error.response.statusText]
       ELSE o.error

getCellValue(room, coord) ==
  /\ CanCall
  /\ Issue("getCellValue", <<Str(room), Str(coord)>>, "GET",
           "/_/" \o room \o "/cells/" \o coord, Undefined, NoConfig)

getCellValueResult(o) ==
  IF o.ok THEN o.response.data
  ELSE IF HasResponse(o.error)
       THEN [status |-> o.error.response.status,
             message |-> o.error.response.statusText]
       ELSE o.error

getHTML(room) ==
  /\ CanCall
  /\ Issue("getHTML", <<Str(room)>>, "GET", "/_/" \o room \o "/html", Undefined, NoConfig)

getHTMLResult(o) ==
  IF o.ok THEN o.response.data
  ELSE IF HasResponse(o.error)
       THEN [status |-> o.error.response.status,
             message |-> o.error.response.statusText]
       ELSE o.error

getCSV(room) ==
  /\ CanCall
  /\ Issue("getCSV", <<Str(room)>>, "GET", "/_/" \o room \o "/csv", Undefined, NoConfig)

getCSVResult(o) ==
  IF o.ok THEN o.response.data
  ELSE IF HasResponse(o.error)
       THEN [status |-> o.error.response.status,
             message |-> o.error.response.statusText]
       ELSE o.error

getJSON(room) ==
  /\ CanCall
  /\ Issue("getJSON", <<Str(room)>>, "GET", "/_/" \o room \o "/csv.json", Undefined, NoConfig)

getJSONResult(o) ==
  IF o.ok THEN o.response.data
  ELSE IF HasResponse(o.error)
       THEN [status |-> o.error.response.status,
             message |-> o.error.response.statusText]
       ELSE o.error

-----------------------------------------------------------------------------
(* The transport settles the awaited request *)

\* the server answers: axios fulfils on a 2xx status and rejects, with the
\* response attached to the error, on any other
Respond ==
  /\ pc = "awaiting"
  /\ \E line \in StatusLines, body \in Bodies :
       LET response == [status |-> line[1], statusText |-> line[2], data |-> body]
       IN  outcome' = IF ValidateStatus(line[1])
                      THEN Fulfilled(response)
                      ELSE Rejected([isAxiosError |-> TRUE,
                                     code |-> "ERR_BAD_RESPONSE",
                                     response |-> response])
  /\ pc' = "settled"
  /\ UNCHANGED <<instance, op, args, request, sent, result>>

\* no response: the connection could not be made
NetworkError ==
  /\ pc = "awaiting"
  /\ \E code \in NetworkCodes :
       outcome' = Rejected([isAxiosError |-> TRUE, code |-> code])
  /\ pc' = "settled"
  /\ UNCHANGED <<instance, op, args, request, sent, result>>

\* no response within the request's timeout
Timeout ==
  /\ pc = "awaiting"
  /\ outcome' = Rejected([isAxiosError |-> TRUE, code |-> "ECONNABORTED",
                          timeout |-> request.timeout])
  /\ pc' = "settled"
  /\ UNCHANGED <<instance, op, args, request, sent, result>>

\* the handler of the operation in progress, resumed after its await
HandlerResult(name, o) ==
  CASE name = "getRoom" -> getRoomResult(o)
    [] name = "createRoom" -> createRoomResult(o)
    [] name = "overwrite" -> overwriteResult(o)
    [] name = "createRoomFromCSVFile" -> createRoomFromCSVFileResult(o)
    [] name = "deleteRoom" -> deleteRoomResult(o)
    [] name = "roomExists" -> roomExistsResult(o)
    [] name = "exportRoom" -> exportRoomResult(o)
    [] name = "listRooms" -> listRoomsResult(o)
    [] name = "postCommand" -> postCommandResult(o)
    [] name = "appendRowsFromCSVFile" -> appendRowsFromCSVFileResult(o)
    [] name = "getCells" -> getCellsResult(o)
    [] name = "getCellValue" -> getCellValueResult(o)
    [] name = "getHTML" -> getHTMLResult(o)
    [] name = "getCSV" -> getCSVResult(o)
    [] name = "getJSON" -> getJSONResult(o)

\* variant: a failed attempt is tried once more before the handler returns
Resume_RetryOnce ==
  /\ pc = "settled"
  /\ IF ~outcome.ok /\ sent < 2
     THEN /\ pc' = "awaiting"
          /\ sent' = sent + 1
          /\ outcome' = NoOutcome
          /\ UNCHANGED <<instance, op, args, request, result>>
     ELSE /\ result' = HandlerResult(op, outcome)
          /\ pc' = "fulfilled"
          /\ UNCHANGED <<instance, op, args, request, sent, outcome>>

\* the async function returns: its promise is fulfilled with the returned value
Resume ==
  /\ pc = "settled"
  /\ result' = HandlerResult(op, outcome)
  /\ pc' = "fulfilled"
  /\ UNCHANGED <<instance, op, args, request, sent, outcome>>

Next ==
  \/ \E room \in Rooms : getRoom(room)
  \/ \E room \in RoomArgs, snapshot \in SnapshotArgs : createRoom(room, snapshot)
  \/ \E room \in Rooms, snapshot \in Snapshots, type \in FormatArgs :
       overwrite(room, snapshot, type)
  \/ \E path \in Paths : createRoomFromCSVFile(path)
  \/ \E room \in Rooms : deleteRoom(room)
  \/ \E room \in Rooms : roomExists(room)
  \/ \E room \in Rooms, type \in TypeArgs : exportRoom(room, type)
  \/ listRooms
  \/ \E room \in Rooms, command \in CommandArgs : postCommand(room, command)
  \/ \E room \in Rooms, path \in Paths : appendRowsFromCSVFile(room, path)
  \/ \E room \in Rooms : getCells(room)
  \/ \E room \in Rooms, coord \in Coords : getCellValue(room, coord)
  \/ \E room \in Rooms : getHTML(room)
  \/ \E room \in Rooms : getCSV(room)
  \/ \E room \in Rooms : getJSON(room)
  \/ Respond
  \/ NetworkError
  \/ Timeout
  \/ Resume

Spec == Init /\ [][Next]_vars

\* axios settles every request (by an answer, a failure or its timeout) and
\* the event loop resumes every settled handler
FairSpec ==
  /\ Spec
  /\ WF_vars(Respond \/ NetworkError \/ Timeout)
  /\ WF_vars(Resume)

-----------------------------------------------------------------------------
(* Vocabulary of the properties *)

AllOps ==
  {"getRoom", "createRoom", "overwrite", "createRoomFromCSVFile",
   "appendRowsFromCSVFile", "deleteRoom", "roomExists", "exportRoom", "listRooms",
   "postCommand", "getCells", "getCellValue", "getHTML", "getCSV", "getJSON"}

GetOps ==
  {"getRoom", "roomExists", "exportRoom", "listRooms", "getCells", "getCellValue",
   "getHTML", "getCSV", "getJSON"}

\* the transport has settled the request of the call
TransportSettled == "ok" \in DOMAIN outcome
\* ... with a 2xx response
GotSuccess == TransportSettled /\ outcome.ok
\* ... with a non-2xx response
GotHttpError == TransportSettled /\ ~outcome.ok /\ HasResponse(outcome.error)
\* ... with no response at all
GotNoResponse == TransportSettled /\ ~outcome.ok /\ ~HasResponse(outcome.error)

\* the {status, message} descriptor of the response attached to the error
DescriptorOf(error) ==
  [status |-> error.response.status, message |-> error.response.statusText]

\* the inverse of the percent-encoding
DecodeHex(h) ==
  CASE h = "20" -> " "
    [] h = "25" -> "%"
    [] h = "26" -> "&"
    [] h = "2C" -> ","
    [] h = "2F" -> "/"
    [] h = "3A" -> ":"
    [] h = "3D" -> "="
    [] h = "5B" -> "["
    [] h = "5D" -> "]"

RECURSIVE Decode(_)
Decode(s) ==
  IF s = "" THEN ""
  ELSE IF Head(s) = "%" THEN DecodeHex(SubSeq(s, 2, 3)) \o Decode(SubSeq(s, 4, Len(s)))
  ELSE Head(s) \o Decode(Tail(s))

\* the positions of the separator in s
SeparatorsIn(s, sep) == {i \in 1..Len(s) : SubSeq(s, i, i) = sep}

\* the k-th smallest element of a set of positions
NthOf(P, k) == CHOOSE p \in P : Cardinality({q \in P : q < p}) = k - 1

\* the pieces of s between occurrences of the separator, left to right
Split(s, sep) ==
  LET P == SeparatorsIn(s, sep)
      n == Cardinality(P) + 1
  IN  [k \in 1..n |->
         SubSeq(s, IF k = 1 THEN 1 ELSE NthOf(P, k - 1) + 1,
                   IF k = n THEN Len(s) ELSE NthOf(P, k) - 1)]

\* a form body read back as the server reads it: the decoded <<key, value>>
\* pairs in the order they appear
ParsePair(part) ==
  LET kv == Split(part, "=")
  IN  <<Decode(kv[1]), IF Len(kv) > 1 THEN Decode(kv[2]) ELSE "">>

ParseBody(body) ==
  IF body = "" THEN <<>>
  ELSE LET parts == Split(body, "&")
       IN  [i \in 1..Len(parts) |-> ParsePair(parts[i])]

-----------------------------------------------------------------------------
(* Properties *)

\* C1: for every operation other than roomExists, a non-2xx answer with status s
\* and reason r makes the call resolve to exactly {status: s, message: r}: the
\* promise is not rejected and the value is neither the body nor the raw error.
C1_HttpErrorDescriptor ==
  (op \in AllOps \ {"roomExists"} /\ GotHttpError) =>
     /\ pc \in {"settled", "fulfilled"}
     /\ pc = "fulfilled" => result = DescriptorOf(outcome.error)

C1_Witness ==
  /\ op = "postCommand"
  /\ pc = "fulfilled"
  /\ GotHttpError
  /\ outcome.error.response.status = 500
  /\ result = [status |-> 500, message |-> "Internal Server Error"]

\* C2 as stated: a 404 "Not Found" answer to any GET-style operation, roomExists
\* included, resolves to {status: 404, message: 'Not Found'}.
C2_Original ==
  (op \in GetOps /\ GotHttpError
     /\ outcome.error.response.status = 404
     /\ outcome.error.response.statusText = "Not Found") =>
     /\ pc \in {"settled", "fulfilled"}
     /\ pc = "fulfilled" => result = [status |-> 404, message |-> "Not Found"]

\* C2 amended: a 404 "Not Found" answer to a GET-style operation other than
\* roomExists resolves to {status: 404, message: 'Not Found'}; to roomExists it
\* resolves to false; in neither case is the promise rejected.
C2_NotFound ==
  (op \in GetOps /\ GotHttpError
     /\ outcome.error.response.status = 404
     /\ outcome.error.response.statusText = "Not Found") =>
     /\ pc \in {"settled", "fulfilled"}
     /\ pc = "fulfilled" =>
          result = IF op = "roomExists" THEN Bool(FALSE)
                   ELSE [status |-> 404, message |-> "Not Found"]

C2_Witness ==
  /\ op = "getCells"
  /\ pc = "fulfilled"
  /\ GotHttpError
  /\ outcome.error.response.status = 404
  /\ result = [status |-> 404, message |-> "Not Found"]

\* C3: for every operation other than roomExists, a request that fails with no
\* HTTP response makes the call resolve to the transport's failure object
\* itself, unchanged.
C3_RawTransportFailure ==
  (op \in AllOps \ {"roomExists"} /\ GotNoResponse) =>
     /\ pc \in {"settled", "fulfilled"}
     /\ pc = "fulfilled" => result = outcome.error

C3_Witness ==
  /\ op = "listRooms"
  /\ pc = "fulfilled"
  /\ GotNoResponse
  /\ outcome.error.code = "ECONNREFUSED"
  /\ result = [isAxiosError |-> TRUE, code |-> "ECONNREFUSED"]

\* C4: roomExists resolves to the decoded body when its request succeeds and to
\* false on every failure, with or without a response.
C4_RoomExists ==
  (op = "roomExists" /\ TransportSettled) =>
     /\ pc \in {"settled", "fulfilled"}
     /\ pc = "fulfilled" =>
          result = IF outcome.ok THEN outcome.response.data ELSE Bool(FALSE)

C4_Witness ==
  /\ op = "roomExists"
  /\ pc = "fulfilled"
  /\ GotNoResponse
  /\ result = Bool(FALSE)

\* the content type documented for an overwrite format
DocumentedContentType(format) ==
  CASE format = "socialcalc" -> "text/x-socialcalc"
    [] format = "xlsx" -> "application/vnd.openxmlformats-officedocument.spreadsheetml.sheet"
    [] format = "csv" -> "text/csv"

\* C5: overwrite issues a request exactly when format is 'socialcalc', 'xlsx' or
\* 'csv': then one PUT to /_/{roomId} with the documented Content-Type and no
\* other header; for any other format it returns an Error value and issues no
\* request.
C5_OverwriteFormat ==
  (op = "overwrite") =>
     LET room == args[1].string
         format == args[3]
     IN  IF format \in {Str("socialcalc"), Str("xlsx"), Str("csv")}
         THEN /\ sent = 1
              /\ request /= NoRequest
              /\ request.method = "PUT"
              /\ request.url = "/_/" \o room
              /\ request.headers = {<<"Content-Type", DocumentedContentType(format.string)>>}
         ELSE /\ sent = 0
              /\ request = NoRequest
              /\ pc = "fulfilled"
              /\ result = [name |-> "Error",
                           message |-> "Format must be one of socialcalc, xlsx or csv!"]

C5_Witness ==
  /\ op = "overwrite"
  /\ args[3] = Str("CSV")
  /\ pc = "fulfilled"
  /\ sent = 0
  /\ "name" \in DOMAIN result

\* the export path segment the documentation promises for a type argument
DocumentedExportType(type) ==
  IF IsString(type) /\ ToLowerCase(type.string) \in {"csv.json", "xlsx", "md", "html"}
  THEN ToLowerCase(type.string)
  ELSE "csv"

\* C6: exportRoom issues its GET to /_/{roomId}/{t}, t the lower-cased type when
\* that is csv.json, xlsx, md or html and csv otherwise, also when type is not
\* defined; no error is raised.
C6_ExportPath ==
  (op = "exportRoom") =>
     /\ pc /= "rejected"
     /\ request /= NoRequest
     /\ request.method = "GET"
     /\ request.url = "/_/" \o args[1].string \o "/" \o DocumentedExportType(args[2])

\* C7 as stated: with a roomId the body carries both the room and the snapshot
\* key; without one the request goes to /_ with the snapshot key only, the
\* placeholder standing in for a missing snapshot; the timeout is 10000 ms.
C7_Original ==
  (op = "createRoom") =>
     LET room == args[1]
         snapshot == args[2]
         parsed == ParseBody(request.data.string)
     IN  /\ request.method = "POST"
         /\ request.timeout = 10000
         /\ IF Truthy(room)
            THEN /\ request.url = "/_/" \o room.string
                 /\ Len(parsed) = 2
                 /\ parsed[1] = <<"room", room.string>>
                 /\ parsed[2][1] = "snapshot"
            ELSE /\ request.url = "/_"
                 /\ parsed = << <<"snapshot", IF Truthy(snapshot) THEN snapshot.string
                                               ELSE DEFAULT_SNAPSHOT>> >>

\* C7 amended: with a roomId the body carries the room key and, unless snapshot
\* is undefined, the snapshot key (an undefined snapshot leaves the room key
\* alone); without a roomId the request goes to /_ with the snapshot key only,
\* the placeholder standing in for a missing snapshot; the timeout is 10000 ms
\* in both branches.
C7_CreateRoomRequest ==
  (op = "createRoom") =>
     LET room == args[1]
         snapshot == args[2]
         parsed == ParseBody(request.data.string)
     IN  /\ request.method = "POST"
         /\ request.timeout = 10000
         /\ IF Truthy(room)
            THEN /\ request.url = "/_/" \o room.string
                 /\ parsed =
                      IF IsUndefined(snapshot) THEN << <<"room", room.string>> >>
                      ELSE << <<"room", room.string>>,
                              <<"snapshot", IF IsNull(snapshot) THEN "" ELSE snapshot.string>> >>
            ELSE /\ request.url = "/_"
                 /\ parsed = << <<"snapshot", IF Truthy(snapshot) THEN snapshot.string
                                               ELSE DEFAULT_SNAPSHOT>> >>

C7_Witness ==
  /\ op = "createRoom"
  /\ args = <<Null, Undefined>>
  /\ pc = "awaiting"
  /\ request.url = "/_"
  /\ request.data = Str("snapshot=...")
  /\ request.timeout = 10000
  /\ instance.timeout = 2500

\* C8: deleteRoom issues one DELETE to /_/{roomId}; when the request succeeds it
\* resolves to true whatever the response's status and body; otherwise to the
\* {status, message} descriptor or the raw transport failure.
C8_DeleteRoom ==
  (op = "deleteRoom") =>
     /\ sent = 1
     /\ request.method = "DELETE"
     /\ request.url = "/_/" \o args[1].string
     /\ pc = "fulfilled" =>
          result = IF outcome.ok THEN Bool(TRUE)
                   ELSE IF HasResponse(outcome.error) THEN DescriptorOf(outcome.error)
                   ELSE outcome.error

C8_Witness ==
  /\ op = "deleteRoom"
  /\ pc = "fulfilled"
  /\ GotSuccess
  /\ outcome.response.status = 204
  /\ outcome.response.data = Bool(FALSE)
  /\ result = Bool(TRUE)

\* C9: every call of every operation eventually resolves to a value: its promise
\* is never rejected, and once a request is in flight the promise is eventually
\* fulfilled.
C9_AlwaysResolves ==
  /\ [](pc /= "rejected")
  /\ (pc \in {"awaiting", "settled"}) ~> (pc = "fulfilled")

\* C10: postCommand POSTs to /_/{roomId} a form body under the key command; the
\* instructions of an array are in the body in the order given, none dropped or
\* repeated, and a single string arrives as it was passed.
C10_CommandOrder ==
  (op = "postCommand") =>
     LET command == args[2]
         parsed == ParseBody(request.data.string)
     IN  /\ request.method = "POST"
         /\ request.url = "/_/" \o args[1].string
         /\ IF IsArray(command)
            THEN /\ Len(parsed) = Len(command.array)
                 /\ \A i \in 1..Len(parsed) :
                      parsed[i] = <<"command[" \o Digit(i - 1) \o "]", command.array[i]>>
            ELSE parsed = << <<"command", command.string>> >>

C10_Witness ==
  /\ op = "postCommand"
  /\ pc = "awaiting"
  /\ args[2] = Arr(<<"set A2 text t a&b=c", "set A1 value n 1">>)
  /\ request.data =
       Str("command%5B0%5D=set%20A2%20text%20t%20a%26b%3Dc&command%5B1%5D=set%20A1%20value%20n%201")

\* C11: one call issues at most one request over its whole lifetime: once the
\* call has started no further request is issued, whatever the transport's
\* outcome, and the handler resumed after the outcome settles the promise with
\* the outcome of that one attempt.
C11_SingleShot ==
  /\ [](sent <= 1)
  /\ [][pc /= "idle" => (sent' = sent /\ request' = request)]_vars
  /\ [][pc = "settled" => (pc' = "fulfilled" /\ outcome' = outcome)]_vars

C11_Witness ==
  /\ op = "getRoom"
  /\ pc = "fulfilled"
  /\ GotNoResponse
  /\ outcome.error.code = "ECONNABORTED"
  /\ sent = 1
  /\ result = outcome.error

====
